---- MODULE Spec2Model ----
(***************************************************************************)
(* Model of screenshot_organizer.py: the session pipeline of main()         *)
(*   cluster_by_time -> refine_sessions_by_similarity (optional)            *)
(*   -> generate_session_names -> merge_similar_sessions (optional)         *)
(*   -> identify_uncategorized -> execute_organization.                     *)
(*                                                                          *)
(* Time is counted in whole seconds; a datetime is the number of seconds    *)
(* since 2024-01-00 00:00:00, so day 1 is 2024-01-01.  A Python str is a     *)
(* sequence of one-character strings.  Session objects live in heap (a      *)
(* session's identity is its index there); lists of sessions are sequences  *)
(* of such indices, so that two lists can share one object as in Python.    *)
(* A Screenshot is identified by its position in screenshots.               *)
(***************************************************************************)
EXTENDS Integers, Sequences, FiniteSets, TLC

VARIABLES
    screenshots,   \* main: the list find_screenshots returned (created_at of each item)
    phash,         \* Screenshot.phash of each item (memoised fingerprint)
    heap,          \* the Session objects: [screenshots, folder_name]
    sessions,      \* main: the local variable sessions (indices into heap)
    regular_sessions, \* main: first component of identify_uncategorized's result
    uncategorized, \* main: second component of identify_uncategorized's result
    args,          \* main: the parsed command line
    env,           \* the collaborators' answers: image hashes, OCR texts, LLM replies
    pc,            \* position of main
    hashRequested, \* items for which calculate_phash was called
    stageOut,      \* history: the list each stage returned, as it was on return
    location,      \* the desktop: the folder each file is in (<<>> is the desktop itself)
    dirs,          \* the desktop: the folders that exist
    traversed,     \* the items execute_organization reached, in order
    returned       \* <<>> while main runs, then <<its return value>>

disk == <<location, dirs, traversed, returned>>

vars == <<screenshots, phash, heap, sessions, regular_sessions, uncategorized,
          args, env, pc, hashRequested, stageOut, location, dirs, traversed, returned>>

----------------------------------------------------------------------------
(* Bounds of the model *)

MaxItems == 3

----------------------------------------------------------------------------
(* datetime helpers *)

SecondsPerMinute == 60
SecondsPerHour == 3600
SecondsPerDay == 86400
BoundaryHour == 4
MergeGapHours == 4

\* datetime.min: start_time / end_time of a session without screenshots
datetime_min == 0

At(day, h, m, s) == day * SecondsPerDay + h * SecondsPerHour + m * SecondsPerMinute + s

HourOf(t) == (t % SecondsPerDay) \div SecondsPerHour
MinuteOf(t) == (t % SecondsPerHour) \div SecondsPerMinute
SecondOf(t) == t % SecondsPerMinute
DateOf(t) == t \div SecondsPerDay

SeqMin(f, s) == CHOOSE x \in {f[s[i]] : i \in 1..Len(s)} :
                    \A y \in {f[s[i]] : i \in 1..Len(s)} : x <= y
SeqMax(f, s) == CHOOSE x \in {f[s[i]] : i \in 1..Len(s)} :
                    \A y \in {f[s[i]] : i \in 1..Len(s)} : x >= y

\* Session.start_time / Session.end_time of a member list
start_time(members) == IF members = <<>> THEN datetime_min ELSE SeqMin(screenshots, members)
end_time(members) == IF members = <<>> THEN datetime_min ELSE SeqMax(screenshots, members)

----------------------------------------------------------------------------
(* Module 2: time-based clustering *)

crossed_4am_utc_boundary(time1, time2) ==
    \/ (DateOf(time1) # DateOf(time2) /\ HourOf(time2) >= BoundaryHour)
    \/ (HourOf(time1) < BoundaryHour /\ BoundaryHour <= HourOf(time2))

within_gap_strict(time_gap, gap_minutes) == time_gap < gap_minutes * SecondsPerMinute

\* time_gap <= timedelta(minutes=gap_minutes)
within_gap(time_gap, gap_minutes) == time_gap <= gap_minutes * SecondsPerMinute

\* the for loop of cluster_by_time from index i on; acc = [sessions, current_session]
RECURSIVE ClusterLoop(_, _, _, _)
ClusterLoop(shots, gap_minutes, i, acc) ==
    IF i > Len(shots) THEN acc
    ELSE LET time_gap == shots[i] - shots[i - 1]
             crossed_4am == crossed_4am_utc_boundary(shots[i - 1], shots[i])
         IN  IF crossed_4am
             THEN ClusterLoop(shots, gap_minutes, i + 1,
                     [sessions |-> Append(acc.sessions, acc.current), current |-> <<i>>])
             ELSE IF within_gap(time_gap, gap_minutes)
             THEN ClusterLoop(shots, gap_minutes, i + 1,
                     [sessions |-> acc.sessions, current |-> Append(acc.current, i)])
             ELSE ClusterLoop(shots, gap_minutes, i + 1,
                     [sessions |-> Append(acc.sessions, acc.current), current |-> <<i>>])

cluster_by_time_no_final(shots, gap_minutes) ==
    IF shots = <<>> THEN <<>>
    ELSE ClusterLoop(shots, gap_minutes, 2, [sessions |-> <<>>, current |-> <<1>>]).sessions

\* the member lists of the sessions cluster_by_time returns, in order
cluster_by_time(shots, gap_minutes) ==
    IF shots = <<>> THEN <<>>
    ELSE LET r == ClusterLoop(shots, gap_minutes, 2, [sessions |-> <<>>, current |-> <<1>>])
         IN  IF r.current # <<>> THEN Append(r.sessions, r.current) ELSE r.sessions

----------------------------------------------------------------------------
(* Session objects *)

\* Session(): a fresh object; entries with ref # 0 reuse the object ref
NewSession(members) == [screenshots |-> members, folder_name |-> <<>>]

RECURSIVE Alloc(_, _, _)
Alloc(h, entries, out) ==
    IF entries = <<>> THEN [heap |-> h, list |-> out]
    ELSE LET e == Head(entries)
         IN  IF e.ref # 0
             THEN Alloc(h, Tail(entries), Append(out, e.ref))
             ELSE Alloc(Append(h, NewSession(e.members)), Tail(entries),
                        Append(out, Len(h) + 1))

\* Session.count
count(h, sid) == Len(h[sid].screenshots)

\* the member lists of a list of sessions
MembersOf(h, list) == [k \in 1..Len(list) |-> h[list[k]].screenshots]

RECURSIVE Flatten(_)
Flatten(ss) == IF ss = <<>> THEN <<>> ELSE Head(ss) \o Flatten(Tail(ss))

----------------------------------------------------------------------------
(* Module 3: perceptual hash analysis *)

NoneHash == [some |-> FALSE, bits |-> {}]
SomeHash(b) == [some |-> TRUE, bits |-> b]

\* ImageHash.__sub__: the number of differing bits
hash_diff(h1, h2) == Cardinality((h1.bits \ h2.bits) \cup (h2.bits \ h1.bits))

\* calculate_phash: the hash of the image, or None when it cannot be read
calculate_phash(i) == env.image[i]

\* items whose hash refine_sessions_by_similarity computes (lines 290-292)
HashedNow(h, list, ph) ==
    {i \in 1..Len(screenshots) :
        /\ ph[i] = NoneHash
        /\ \E k \in 1..Len(list) :
              /\ count(h, list[k]) > 1
              /\ \E j \in 1..count(h, list[k]) : h[list[k]].screenshots[j] = i}

similar_strict(h1, h2, threshold) == hash_diff(h1, h2) < threshold

\* hash_diff <= threshold
similar(h1, h2, threshold) == hash_diff(h1, h2) <= threshold

\* current.phash is None or previous.phash is None
keep_on_missing_hash(cur, prev) == cur = NoneHash \/ prev = NoneHash

\* the inner for loop of refine_sessions_by_similarity over one session's members
RECURSIVE RefineLoop(_, _, _, _, _)
RefineLoop(members, ph, threshold, i, acc) ==
    IF i > Len(members) THEN acc
    ELSE LET current == members[i]
             previous == members[i - 1]
         IN  IF keep_on_missing_hash(ph[current], ph[previous])
             THEN RefineLoop(members, ph, threshold, i + 1,
                     [refined |-> acc.refined, current |-> Append(acc.current, current)])
             ELSE IF similar(ph[current], ph[previous], threshold)
             THEN RefineLoop(members, ph, threshold, i + 1,
                     [refined |-> acc.refined, current |-> Append(acc.current, current)])
             ELSE RefineLoop(members, ph, threshold, i + 1,
                     [refined |-> Append(acc.refined, [ref |-> 0, members |-> acc.current]),
                      current |-> <<current>>])

RefineOne_no_final(h, sid, ph, threshold) ==
    IF count(h, sid) <= 1 THEN <<[ref |-> sid, members |-> h[sid].screenshots]>>
    ELSE LET m == h[sid].screenshots
         IN  RefineLoop(m, ph, threshold, 2, [refined |-> <<>>, current |-> <<m[1]>>]).refined

\* the entries one session contributes to refined_sessions
RefineOne(h, sid, ph, threshold) ==
    IF count(h, sid) <= 1 THEN <<[ref |-> sid, members |-> h[sid].screenshots]>>
    ELSE LET m == h[sid].screenshots
             r == RefineLoop(m, ph, threshold, 2, [refined |-> <<>>, current |-> <<m[1]>>])
         IN  IF r.current # <<>>
             THEN Append(r.refined, [ref |-> 0, members |-> r.current])
             ELSE r.refined

RECURSIVE RefineAll(_, _, _, _, _)
RefineAll(h, list, ph, threshold, k) ==
    IF k > Len(list) THEN <<>>
    ELSE RefineOne(h, list[k], ph, threshold) \o RefineAll(h, list, ph, threshold, k + 1)

----------------------------------------------------------------------------
(* Python str: a sequence of one-character strings *)

DigitChars == <<"0", "1", "2", "3", "4", "5", "6", "7", "8", "9">>
LowerChars == <<"a", "b", "c", "d", "e", "f", "g", "h", "i", "j", "k", "l", "m",
                "n", "o", "p", "q", "r", "s", "t", "u", "v", "w", "x", "y", "z">>
UpperChars == <<"A", "B", "C", "D", "E", "F", "G", "H", "I", "J", "K", "L", "M",
                "N", "O", "P", "Q", "R", "S", "T", "U", "V", "W", "X", "Y", "Z">>
Whitespace == {" ", "\n", "\t"}

Range(s) == {s[i] : i \in 1..Len(s)}
IsDigitChar(c) == c \in Range(DigitChars)
IsAlphaChar(c) == c \in Range(LowerChars) \cup Range(UpperChars)

\* str.lower
LowerChar(c) ==
    IF c \in Range(UpperChars)
    THEN LowerChars[CHOOSE k \in 1..Len(UpperChars) : UpperChars[k] = c]
    ELSE c
Lower(s) == [i \in 1..Len(s) |-> LowerChar(s[i])]

\* str.isdigit
isdigit(s) == s # <<>> /\ \A i \in 1..Len(s) : IsDigitChar(s[i])

\* str(n) for n >= 0, and the two-digit field of strftime
RECURSIVE DecStr(_)
DecStr(n) == IF n < 10 THEN <<DigitChars[n + 1]>>
             ELSE DecStr(n \div 10) \o <<DigitChars[(n % 10) + 1]>>
Pad2(n) == <<DigitChars[((n \div 10) % 10) + 1], DigitChars[(n % 10) + 1]>>

\* str.strip(chars)
RECURSIVE LStrip(_, _)
LStrip(s, chars) == IF s # <<>> /\ Head(s) \in chars THEN LStrip(Tail(s), chars) ELSE s
RECURSIVE RStrip(_, _)
RStrip(s, chars) ==
    IF s # <<>> /\ s[Len(s)] \in chars THEN RStrip(SubSeq(s, 1, Len(s) - 1), chars) ELSE s
Strip(s, chars) == RStrip(LStrip(s, chars), chars)

\* str.split(sep) for a one-character sep: always at least one part
RECURSIVE SplitFrom(_, _, _, _)
SplitFrom(s, sep, i, part) ==
    IF i > Len(s) THEN <<part>>
    ELSE IF s[i] = sep THEN <<part>> \o SplitFrom(s, sep, i + 1, <<>>)
    ELSE SplitFrom(s, sep, i + 1, Append(part, s[i]))
Split(s, sep) == SplitFrom(s, sep, 1, <<>>)

\* sep.join(parts)
RECURSIVE Join(_, _)
Join(parts, sep) ==
    IF parts = <<>> THEN <<>>
    ELSE IF Len(parts) = 1 THEN parts[1]
    ELSE parts[1] \o sep \o Join(Tail(parts), sep)

\* parts[:n]
Take(s, n) == SubSeq(s, 1, IF Len(s) < n THEN Len(s) ELSE n)

\* strftime("%Y-%m-%d"), strftime("%H%M%S"): days of January 2024
strftime_date(t) == <<"2", "0", "2", "4", "-", "0", "1", "-">> \o Pad2(DateOf(t))
strftime_time(t) == Pad2(HourOf(t)) \o Pad2(MinuteOf(t)) \o Pad2(SecondOf(t))

----------------------------------------------------------------------------
(* Module 4: session naming *)

DENYLIST ==
    {<<"l","o","c","a","l","h","o","s","t">>, <<"h","t","t","p","s">>, 
     <<"h","t","t","p">>, <<"c","h","r","o","m","e">>, <<"f","i","r","e","f","o","x">>, 
     <<"s","a","f","a","r","i">>, <<"b","r","o","w","s","e","r">>, 
     <<"w","i","n","d","o","w">>, <<"t","a","b">>, <<"p","a","g","e">>, 
     <<"s","i","t","e">>, <<"w","e","b">>, <<"w","w","w">>, <<"c","o","m">>, 
     <<"o","r","g">>, <<"n","e","t">>, <<"b","u","t","t","o","n">>, 
     <<"c","l","i","c","k">>, <<"m","e","n","u">>, <<"t","o","o","l","b","a","r">>, 
     <<"s","i","d","e","b","a","r">>, <<"h","e","a","d","e","r">>, 
     <<"f","o","o","t","e","r">>, <<"n","a","v","i","g","a","t","i","o","n">>, 
     <<"s","e","a","r","c","h">>, <<"f","i","l","t","e","r">>, <<"s","o","r","t">>, 
     <<"v","i","e","w">>, <<"s","h","o","w">>, <<"h","i","d","e">>, <<"t","e","x","t">>, 
     <<"c","o","n","t","e","n","t">>, <<"d","a","t","a">>, <<"i","t","e","m">>, 
     <<"f","i","e","l","d">>, <<"v","a","l","u","e">>, <<"t","y","p","e">>, 
     <<"n","a","m","e">>, <<"i","n","f","o">>, <<"d","e","t","a","i","l","s">>, 
     <<"s","e","t","t","i","n","g","s">>, <<"o","p","t","i","o","n","s">>, 
     <<"p","r","e","f","e","r","e","n","c","e","s">>, <<"c","o","n","f","i","g">>}

STOPWORDS ==
    {<<"t","h","e">>, <<"a","n","d">>, <<"f","o","r">>, <<"a","r","e">>, <<"b","u","t">>, 
     <<"n","o","t">>, <<"y","o","u">>, <<"a","l","l">>, <<"c","a","n">>, <<"h","e","r">>, 
     <<"w","a","s">>, <<"o","n","e">>, <<"o","u","r">>, <<"o","u","t">>, <<"d","a","y">>, 
     <<"g","e","t">>, <<"h","a","s">>, <<"h","i","m">>, <<"h","i","s">>, <<"h","o","w">>, 
     <<"i","t","s">>, <<"m","a","y">>, <<"n","e","w">>, <<"n","o","w">>, <<"o","l","d">>, 
     <<"s","e","e">>, <<"t","w","o">>, <<"w","h","o">>, <<"b","o","y">>, <<"d","i","d">>, 
     <<"m","a","n">>, <<"w","a","y">>, <<"w","i","l","l">>, <<"w","i","t","h">>, 
     <<"t","h","a","t">>, <<"t","h","i","s">>, <<"h","a","v","e">>, <<"f","r","o","m">>, 
     <<"t","h","e","y">>, <<"b","e","e","n">>, <<"m","o","r","e">>, <<"t","h","a","n">>, 
     <<"i","n","t","o">>, <<"j","u","s","t">>, <<"l","i","k","e">>, <<"s","o","m","e">>, 
     <<"t","i","m","e">>, <<"v","e","r","y">>, <<"w","h","e","n">>, <<"y","o","u","r">>, 
     <<"a","b","o","u","t">>, <<"a","f","t","e","r">>, <<"b","e","f","o","r","e">>, 
     <<"o","t","h","e","r">>, <<"s","u","c","h">>, <<"t","h","e","r","e">>, 
     <<"t","h","e","s","e">>, <<"w","o","u","l","d">>, <<"t","h","e","i","r">>, 
     <<"w","h","i","c","h">>, <<"w","h","a","t">>, <<"w","h","e","r","e">>, 
     <<"w","h","i","l","e">>, <<"s","h","o","u","l","d">>, <<"c","o","u","l","d">>, 
     <<"t","h","e","n">>, <<"a","l","s","o">>, <<"e","a","c","h">>, <<"t","h","e","m">>, 
     <<"o","n","l","y">>, <<"u","n","d","e","r">>, <<"o","v","e","r">>}

SampleSize == 3
TopKeywords == 3
LabelTokens == 4
MinKeywordLength == 4
KeywordTableSize == 30

US == <<"_">>
SessionWord == <<"s", "e", "s", "s", "i", "o", "n">>

\* extract_text_from_screenshot: the words of the text ("" is no word at all)
extract_text_from_screenshot(i) == IF ~env.ocr_available THEN <<>> ELSE env.text[i]

\* re.findall(r'\b[a-zA-Z]{min_length,}\b', text.lower()) over the words of the text
FindWords(text, min_length) ==
    SelectSeq([k \in 1..Len(text) |-> Lower(text[k])],
              LAMBDA w : Len(w) >= min_length /\ \A j \in 1..Len(w) : IsAlphaChar(w[j]))

\* Counter(words): (word, count) in order of first occurrence
RECURSIVE CounterOf(_, _)
CounterOf(words, seen) ==
    IF words = <<>> THEN <<>>
    ELSE LET w == Head(words)
         IN  IF w \in seen THEN CounterOf(Tail(words), seen)
             ELSE <<[word |-> w,
                     count |-> 1 + Len(SelectSeq(Tail(words), LAMBDA x : x = w))]>>
                  \o CounterOf(Tail(words), seen \cup {w})

\* Counter.most_common: by count, descending; equal counts keep first-occurrence order
RECURSIVE MostCommon(_)
MostCommon(table) ==
    IF table = <<>> THEN <<>>
    ELSE LET best == CHOOSE k \in 1..Len(table) :
                        /\ \A j \in 1..Len(table) : table[j].count <= table[k].count
                        /\ \A j \in 1..(k - 1) : table[j].count < table[k].count
         IN  <<table[best]>>
             \o MostCommon(SubSeq(table, 1, best - 1) \o SubSeq(table, best + 1, Len(table)))

\* extract_keywords(text, min_length, top_n)
extract_keywords(text, min_length, top_n) ==
    LET words == FindWords(text, min_length)
        filtered_words == SelectSeq(words, LAMBDA w : w \notin STOPWORDS /\ w \notin DENYLIST)
    IN  Take(MostCommon(CounterOf(filtered_words, {})), top_n)

\* re.sub(r'[^a-z0-9_]', '_', s)
SubNonToken(s) ==
    [i \in 1..Len(s) |->
        IF s[i] \in Range(LowerChars) \/ IsDigitChar(s[i]) \/ s[i] = "_" THEN s[i] ELSE "_"]

\* re.sub(r'_+', '_', s)
RECURSIVE CollapseUS(_)
CollapseUS(s) ==
    IF Len(s) < 2 THEN s
    ELSE IF s[1] = "_" /\ s[2] = "_" THEN CollapseUS(Tail(s))
    ELSE <<s[1]>> \o CollapseUS(Tail(s))

CleanLabel_uncapped(stdout) ==
    Strip(CollapseUS(SubNonToken(Lower(Strip(stdout, Whitespace)))), {"_"})

\* lines 423-430 of call_llm_for_name: clean up the reply
CleanLabel(stdout) ==
    LET suggested == Strip(CollapseUS(SubNonToken(Lower(Strip(stdout, Whitespace)))), {"_"})
        parts == Take(Split(suggested, "_"), LabelTokens)
    IN  Join(parts, US)

NoneStr == [some |-> FALSE, str |-> <<>>]
SomeStr(s) == [some |-> TRUE, str |-> s]

\* call_llm_for_name; reply is what subprocess.run gave for this session
call_llm_for_name(keywords, reply) ==
    IF keywords = <<>> THEN NoneStr
    ELSE IF reply.ok THEN SomeStr(CleanLabel(reply.stdout))
    ELSE NoneStr

\* f"{timestamp}_session_{session_index}"
TimestampName(t, session_index) ==
    strftime_date(t) \o US \o strftime_time(t) \o US \o SessionWord \o US \o DecStr(session_index)

\* generate_smart_session_name
generate_smart_session_name(members, session_index) ==
    LET timestamp == strftime_date(start_time(members)) \o US \o strftime_time(start_time(members))
        sample_screenshots == Take(members, SampleSize)
        texts == [k \in 1..Len(sample_screenshots) |->
                     extract_text_from_screenshot(sample_screenshots[k])]
        all_text == SelectSeq(texts, LAMBDA t : t # <<>>)
        keywords == extract_keywords(Flatten(all_text), MinKeywordLength, KeywordTableSize)
        llm_name == call_llm_for_name(keywords, env.llm[members[1]])
        top_words == [k \in 1..Len(Take(keywords, TopKeywords)) |-> keywords[k].word]
    IN  IF ~env.ocr_available THEN TimestampName(start_time(members), session_index)
        ELSE IF all_text = <<>> THEN TimestampName(start_time(members), session_index)
        ELSE IF llm_name.some /\ llm_name.str # <<>> THEN timestamp \o US \o llm_name.str
        ELSE IF top_words # <<>> THEN timestamp \o US \o Join(top_words, US)
        ELSE TimestampName(start_time(members), session_index)

\* lines 501-506: sessions_by_date as (date_str, date_sessions) in insertion order
RECURSIVE GroupByDate(_, _, _)
GroupByDate(h, list, groups) ==
    IF list = <<>> THEN groups
    ELSE LET sid == Head(list)
             date_str == strftime_date(start_time(h[sid].screenshots))
             known == {g \in 1..Len(groups) : groups[g].date_str = date_str}
         IN  IF known = {}
             THEN GroupByDate(h, Tail(list),
                     Append(groups, [date_str |-> date_str, date_sessions |-> <<sid>>]))
             ELSE LET g == CHOOSE x \in known : TRUE
                  IN  GroupByDate(h, Tail(list),
                         [groups EXCEPT ![g].date_sessions = Append(@, sid)])

enumerate_from_zero(idx) == idx - 1

\* enumerate(date_sessions, start=1): the index given to position idx
enumerate_from_one(idx) == idx

\* lines 510-515: name the sessions of one date group from position idx on
RECURSIVE NameGroup(_, _, _, _)
NameGroup(h, group, idx, use_smart_naming) ==
    IF idx > Len(group.date_sessions) THEN h
    ELSE LET sid == group.date_sessions[idx]
             members == h[sid].screenshots
             name == IF use_smart_naming
                     THEN generate_smart_session_name(members, enumerate_from_one(idx))
                     ELSE group.date_str \o US \o strftime_time(start_time(members))
                          \o US \o SessionWord \o US \o DecStr(enumerate_from_one(idx))
         IN  NameGroup([h EXCEPT ![sid].folder_name = name], group, idx + 1, use_smart_naming)

RECURSIVE NameGroups(_, _, _)
NameGroups(h, groups, use_smart_naming) ==
    IF groups = <<>> THEN h
    ELSE NameGroups(NameGroup(h, Head(groups), 1, use_smart_naming), Tail(groups),
                    use_smart_naming)

\* generate_session_names: the heap after naming the sessions of list in place
generate_session_names(h, list, use_smart_naming) ==
    NameGroups(h, GroupByDate(h, list, <<>>), use_smart_naming)

----------------------------------------------------------------------------
(* Module 4.5: session merging *)

name_keywords_keep_session(name) ==
    LET parts == Split(name, "_")
        keywords == IF Len(parts) > 2 THEN SubSeq(parts, 3, Len(parts)) ELSE parts
    IN  Range(SelectSeq(keywords, LAMBDA k : ~isdigit(k)))

\* the nested extract_keywords of calculate_keyword_similarity
name_keywords(name) ==
    LET parts == Split(name, "_")
        keywords == IF Len(parts) > 2 THEN SubSeq(parts, 3, Len(parts)) ELSE parts
    IN  Range(SelectSeq(keywords, LAMBDA k : k # SessionWord /\ ~isdigit(k)))

\* calculate_keyword_similarity as the fraction n/d
calculate_keyword_similarity(name1, name2) ==
    LET keywords1 == name_keywords(name1)
        keywords2 == name_keywords(name2)
    IN  IF keywords1 = {} \/ keywords2 = {} THEN [n |-> 0, d |-> 1]
        ELSE [n |-> Cardinality(keywords1 \cap keywords2),
              d |-> Cardinality(keywords1 \cup keywords2)]

\* similarity >= similarity_threshold, the threshold being the fraction num/den
at_least(similarity, threshold) ==
    similarity.n * threshold.den >= threshold.num * similarity.d

within_merge_gap_strict(time_gap) == time_gap < MergeGapHours * SecondsPerHour

\* time_gap <= timedelta(hours=4)
within_merge_gap(time_gap) == time_gap <= MergeGapHours * SecondsPerHour

\* lines 597-601: should_merge
should_merge(h, current, next_session, similarity_threshold) ==
    /\ at_least(calculate_keyword_similarity(h[current].folder_name,
                                             h[next_session].folder_name),
                similarity_threshold)
    /\ within_merge_gap(start_time(h[next_session].screenshots)
                         - end_time(h[current].screenshots))
    /\ ~crossed_4am_utc_boundary(end_time(h[current].screenshots),
                                 start_time(h[next_session].screenshots))

absorb_nothing(h, current, next_session) == h

absorb_prepend(h, current, next_session) ==
    [h EXCEPT ![current].screenshots = h[next_session].screenshots \o @]

\* current.screenshots.extend(next_session.screenshots)
absorb(h, current, next_session) ==
    [h EXCEPT ![current].screenshots = @ \o h[next_session].screenshots]

RECURSIVE MergeLoop_chain(_, _, _, _, _, _)
MergeLoop_chain(h, list, similarity_threshold, i, merged, current) ==
    IF i > Len(list) THEN [heap |-> h, merged |-> Append(merged, current)]
    ELSE LET next_session == list[i]
         IN  IF should_merge(h, list[i - 1], next_session, similarity_threshold)
             THEN MergeLoop_chain(absorb(h, current, next_session),
                                  list, similarity_threshold, i + 1, merged, current)
             ELSE MergeLoop_chain(h, list, similarity_threshold, i + 1,
                                  Append(merged, current), next_session)

\* the for loop of merge_similar_sessions from index i on
RECURSIVE MergeLoop(_, _, _, _, _, _)
MergeLoop(h, list, similarity_threshold, i, merged, current) ==
    IF i > Len(list) THEN [heap |-> h, merged |-> Append(merged, current)]
    ELSE LET next_session == list[i]
         IN  IF should_merge(h, current, next_session, similarity_threshold)
             THEN MergeLoop(absorb(h, current, next_session),
                            list, similarity_threshold, i + 1, merged, current)
             ELSE MergeLoop(h, list, similarity_threshold, i + 1,
                            Append(merged, current), next_session)

\* merge_similar_sessions: the heap afterwards and the list returned
merge_similar_sessions(h, list, similarity_threshold) ==
    IF Len(list) <= 1 THEN [heap |-> h, merged |-> list]
    ELSE MergeLoop(h, list, similarity_threshold, 2, <<>>, list[1])

----------------------------------------------------------------------------
(* Module 5: uncategorized handler *)

RECURSIVE identify_uncategorized_reversed(_, _)
identify_uncategorized_reversed(h, list) ==
    IF list = <<>> THEN [regular |-> <<>>, uncategorized |-> <<>>]
    ELSE LET rest == identify_uncategorized_reversed(h, Tail(list))
             sid == Head(list)
         IN  IF count(h, sid) = 1
             THEN [regular |-> rest.regular,
                   uncategorized |-> rest.uncategorized \o h[sid].screenshots]
             ELSE [regular |-> rest.regular \o <<sid>>,
                   uncategorized |-> rest.uncategorized]

\* identify_uncategorized: (regular_sessions, uncategorized)
RECURSIVE identify_uncategorized(_, _)
identify_uncategorized(h, list) ==
    IF list = <<>> THEN [regular |-> <<>>, uncategorized |-> <<>>]
    ELSE LET rest == identify_uncategorized(h, Tail(list))
             sid == Head(list)
         IN  IF count(h, sid) = 1
             THEN [regular |-> rest.regular,
                   uncategorized |-> h[sid].screenshots \o rest.uncategorized]
             ELSE [regular |-> <<sid>> \o rest.regular,
                   uncategorized |-> rest.uncategorized]

----------------------------------------------------------------------------
(* Module 7: file operations *)

OnDesktop == <<>>
UncategorizedFolder == <<"u", "n", "c", "a", "t", "e", "g", "o", "r", "i", "z", "e", "d">>

make_folder_always(x, name, dry_run) ==
    IF ~env.mkdir_ok THEN [x EXCEPT !.failed = TRUE]
    ELSE [x EXCEPT !.dirs = @ \cup {name}]

\* folder_path.mkdir(exist_ok=True), or the "Would create" line of a dry run;
\* x is the state of the desktop and failed says that an exception was raised
make_folder(x, name, dry_run) ==
    IF dry_run THEN x
    ELSE IF ~env.mkdir_ok THEN [x EXCEPT !.failed = TRUE]
    ELSE [x EXCEPT !.dirs = @ \cup {name}]

\* shutil.move(screenshot.path, dest_path), or the "Would move" line of a dry run
move_file(x, i, name, dry_run) ==
    LET reached == [x EXCEPT !.traversed = Append(@, i)]
    IN  IF dry_run THEN reached
        ELSE IF ~env.move_ok[i] THEN [reached EXCEPT !.failed = TRUE]
        ELSE [reached EXCEPT !.location[i] = name]

\* the inner for loops (lines 745-752 and 765-772): an exception leaves the loop
RECURSIVE MoveAll(_, _, _, _)
MoveAll(x, members, name, dry_run) ==
    IF x.failed \/ members = <<>> THEN x
    ELSE MoveAll(move_file(x, Head(members), name, dry_run), Tail(members), name, dry_run)

\* the for loop over sessions (lines 735-752)
RECURSIVE MoveSessions(_, _, _, _)
MoveSessions(x, h, list, dry_run) ==
    IF x.failed \/ list = <<>> THEN x
    ELSE LET folder_name == h[Head(list)].folder_name
             made == make_folder(x, folder_name, dry_run)
         IN  MoveSessions(MoveAll(made, h[Head(list)].screenshots, folder_name, dry_run),
                          h, Tail(list), dry_run)

\* lines 755-772: the uncategorized folder, only if there is something for it
MoveUncategorized(x, items, dry_run) ==
    IF x.failed \/ items = <<>> THEN x
    ELSE MoveAll(make_folder(x, UncategorizedFolder, dry_run), items,
                 UncategorizedFolder, dry_run)

\* execute_organization: the desktop afterwards; success is the value returned
execute_organization(x, h, list, items, dry_run) ==
    LET done == MoveUncategorized(MoveSessions(x, h, list, dry_run), items, dry_run)
    IN  [location |-> done.location, dirs |-> done.dirs, traversed |-> done.traversed,
         success |-> ~done.failed]

----------------------------------------------------------------------------
(* The inputs of a run: files, command line, collaborators *)

SortedSeqs(Times, n) ==
    {s \in [1..n -> Times] : \A i \in 1..(n - 1) : s[i] <= s[i + 1]}
SortedUpTo(Times, max) == UNION {SortedSeqs(Times, n) : n \in 0..max}
\* the sorted lists of files no two of which were created in the same second
IncreasingUpTo(Times, max) ==
    {s \in SortedUpTo(Times, max) : \A i \in 1..(Len(s) - 1) : s[i] < s[i + 1]}

\* creation times around the 04:00 cutover, around midnight and days apart
TimesCutover ==
    {At(1, 3, 0, 0), At(1, 3, 59, 0), At(1, 4, 0, 30), At(1, 4, 5, 30), At(1, 4, 20, 30),
     At(1, 23, 50, 0), At(2, 0, 10, 0), At(2, 2, 0, 0), At(2, 4, 30, 0), At(3, 2, 0, 0)}
\* creation times minutes apart and more than 4 hours apart
TimesBurst == {At(1, 4, 0, 30), At(1, 4, 5, 30), At(1, 8, 0, 31)}
\* creation times on both sides of midnight
TimesMidnight == {At(1, 23, 50, 0), At(2, 0, 10, 0)}
\* creation times 4 hours and 4 hours and a second apart, and three bursts
\* that follow each other closely across midnight
TimesMerge ==
    {At(1, 4, 0, 30), At(1, 8, 0, 30), At(1, 8, 0, 31),
     At(1, 23, 50, 0), At(2, 0, 10, 0), At(2, 0, 40, 0)}

Gaps == {15, 60, 3000}

Hashes == {SomeHash({}), SomeHash({1, 2})}
AlternatingImages(n) == [i \in 1..n |-> IF i % 2 = 1 THEN SomeHash({}) ELSE SomeHash({1, 2})]

\* OCR results as words: no text, text without a keyword, two texts with keywords
TextNone == <<>>
TextNoKeywords == <<<<"T", "h", "e">>, <<"P", "a", "g", "e">>, <<"w", "i", "t", "h">>,
                    <<"v", "2">>, <<"!", "!">>>>
TextUnity == <<<<"U", "n", "i", "t", "y">>, <<"s", "t", "o", "r", "e">>,
               <<"l", "o", "g", "i", "n">>, <<"u", "n", "i", "t", "y">>,
               <<"c", "a", "r", "t">>, <<"p", "a", "g", "e">>>>
Texts == {TextNone, TextNoKeywords, TextUnity}

\* what subprocess.run gave: no usable result, or the reply's stdout
ReplyFailed == [ok |-> FALSE, stdout |-> <<>>]
ReplyBlank == [ok |-> TRUE, stdout |-> <<" ", "!", "\n">>]
ReplyUnityStore ==
    [ok |-> TRUE, stdout |-> <<"U", "n", "i", "t", "y", " ", "S", "t", "o", "r", "e", "\n">>]
ReplyStoreLogin ==
    [ok |-> TRUE, stdout |-> <<"s", "t", "o", "r", "e", "_", "l", "o", "g", "i", "n">>]
ReplyLong ==
    [ok |-> TRUE,
     stdout |-> <<"\"", "u", "n", "i", "t", "y", "-", "s", "t", "o", "r", "e", " ", "l", "o",
                  "g", "i", "n", " ", "v", "2", " ", "x", "\"">>]

Thresholds == {[num |-> 0, den |-> 1], [num |-> 1, den |-> 2], [num |-> 1, den |-> 1]}

Args(g, sim, t, smart, merge, s) ==
    [gap_minutes |-> g, enable_similarity |-> sim, similarity_threshold |-> t,
     smart_naming |-> smart, merge_similar |-> merge, merge_threshold |-> s]

Env(images, texts, replies, ocr) ==
    [image |-> images, text |-> texts, llm |-> replies, ocr_available |-> ocr]

\* --dry-run and --auto-confirm, the answer to "Proceed with organization?",
\* and what the file system does with each mkdir and each move
Run(dry_run, auto_confirm, confirm, mkdir_ok, move_ok) ==
    [dry_run |-> dry_run, auto_confirm |-> auto_confirm, confirm |-> confirm,
     mkdir_ok |-> mkdir_ok, move_ok |-> move_ok]

\* --auto-confirm on a desktop where every operation succeeds
PlainRun(n) == Run(FALSE, TRUE, FALSE, TRUE, [i \in 1..n |-> TRUE])

\* the four ways main can end, on a desktop where creating folders fails or
\* where some of the moves fail
Runs(n) ==
    LET Disks == {[mkdir_ok |-> TRUE, move_ok |-> m] : m \in [1..n -> BOOLEAN]}
                 \cup {[mkdir_ok |-> FALSE, move_ok |-> [i \in 1..n |-> TRUE]]}
        Modes == {<<TRUE, FALSE, FALSE>>, <<FALSE, TRUE, FALSE>>,
                  <<FALSE, FALSE, TRUE>>, <<FALSE, FALSE, FALSE>>}
    IN  {Run(m[1], m[2], m[3], d.mkdir_ok, d.move_ok) : m \in Modes, d \in Disks}

\* main after find_screenshots returned shots
InitRun(shots, a, e, r) ==
    /\ screenshots = shots
    /\ phash = [i \in 1..Len(shots) |-> NoneHash]
    /\ heap = <<>>
    /\ sessions = <<>>
    /\ regular_sessions = <<>>
    /\ uncategorized = <<>>
    /\ args = a @@ [dry_run |-> r.dry_run, auto_confirm |-> r.auto_confirm]
    /\ env = e @@ [confirm |-> r.confirm, mkdir_ok |-> r.mkdir_ok, move_ok |-> r.move_ok]
    /\ pc = "found"
    /\ hashRequested = {}
    /\ stageOut = [time |-> <<>>, refined |-> <<>>, named |-> <<>>, merged |-> <<>>]
    /\ location = [i \in 1..Len(shots) |-> OnDesktop]
    /\ dirs = {}
    /\ traversed = <<>>
    /\ returned = <<>>

InitWith(shots, a, e) == InitRun(shots, a, e, PlainRun(Len(shots)))

\* many creation times and gaps; the optional stages all off or all on
InitCutover ==
    \E shots \in SortedUpTo(TimesCutover, MaxItems), g \in Gaps, on \in BOOLEAN :
        InitWith(shots,
                 Args(g, on, 1, on, on, [num |-> 1, den |-> 2]),
                 Env(AlternatingImages(Len(shots)), [i \in 1..Len(shots) |-> TextUnity],
                     [i \in 1..Len(shots) |-> ReplyUnityStore], TRUE))

\* every combination of the optional stages
InitFlags ==
    \E shots \in SortedUpTo(TimesBurst, MaxItems), sim \in BOOLEAN, smart \in BOOLEAN,
       merge \in BOOLEAN :
        InitWith(shots,
                 Args(15, sim, 1, smart, merge, [num |-> 1, den |-> 2]),
                 Env(AlternatingImages(Len(shots)), [i \in 1..Len(shots) |-> TextUnity],
                     [i \in 1..Len(shots) |-> ReplyUnityStore], TRUE))

\* every image readable or not, alike or not
InitImages ==
    \E shots \in SortedUpTo(TimesBurst, MaxItems), g \in {15, 3000}, t \in {1, 2} :
    \E images \in [1..Len(shots) -> Hashes \cup {NoneHash}] :
        InitWith(shots,
                 Args(g, TRUE, t, FALSE, FALSE, [num |-> 1, den |-> 2]),
                 Env(images, [i \in 1..Len(shots) |-> TextUnity],
                     [i \in 1..Len(shots) |-> ReplyFailed], TRUE))

\* every OCR text and every reply of the label generator, for one item fewer
InitNaming ==
    \E shots \in SortedUpTo(TimesMidnight, MaxItems - 1), sim \in BOOLEAN, ocr \in BOOLEAN :
    \E texts \in [1..Len(shots) -> IF ocr THEN Texts ELSE {TextUnity}] :
    \E replies \in [1..Len(shots) ->
                      IF ocr THEN {ReplyFailed, ReplyBlank, ReplyLong}
                      ELSE {ReplyLong}] :
        InitWith(shots,
                 Args(15, sim, 1, TRUE, FALSE, [num |-> 1, den |-> 2]),
                 Env(AlternatingImages(Len(shots)), texts, replies, ocr))

\* merging with names that are alike, partly alike or not alike; without
\* similarity splitting files of the same second always share a cluster, so the
\* creation times are distinct
InitMerging ==
    \E shots \in IncreasingUpTo(TimesMerge, MaxItems), smart \in BOOLEAN, s \in Thresholds :
    \E replies \in [1..Len(shots) ->
                      IF smart THEN {ReplyFailed, ReplyUnityStore, ReplyStoreLogin}
                      ELSE {ReplyFailed}] :
        InitWith(shots,
                 Args(15, FALSE, 1, smart, TRUE, s),
                 Env(AlternatingImages(Len(shots)), [i \in 1..Len(shots) |-> TextUnity],
                     replies, TRUE))

\* every way main can end and every way the file operations can fail
InitExecute ==
    \E shots \in SortedUpTo(TimesBurst, MaxItems), g \in {15, 3000} :
    \E r \in Runs(Len(shots)) :
        InitRun(shots,
                Args(g, FALSE, 1, FALSE, FALSE, [num |-> 1, den |-> 2]),
                Env(AlternatingImages(Len(shots)), [i \in 1..Len(shots) |-> TextUnity],
                    [i \in 1..Len(shots) |-> ReplyFailed], TRUE),
                r)

\* one longer desktop: bursts of 1, 1, 2, 1, 1, 1 and 1 files, which the merger
\* can turn into sessions of 1, 3, 1, 2 and 1 files; at most one move fails
ExampleShots ==
    <<At(1, 0, 30, 0), At(1, 4, 10, 0), At(1, 4, 30, 0), At(1, 4, 35, 0), At(1, 9, 0, 0),
      At(1, 14, 0, 0), At(1, 14, 20, 0), At(1, 19, 0, 0)>>
InitExample ==
    \E smart \in BOOLEAN, merge \in BOOLEAN, dry_run \in BOOLEAN,
       f \in 0..Len(ExampleShots) :
        InitRun(ExampleShots,
                Args(15, FALSE, 1, smart, merge, [num |-> 1, den |-> 2]),
                Env(AlternatingImages(Len(ExampleShots)),
                    [i \in 1..Len(ExampleShots) |-> TextUnity],
                    [i \in 1..Len(ExampleShots) |-> ReplyUnityStore], TRUE),
                Run(dry_run, TRUE, FALSE, TRUE, [i \in 1..Len(ExampleShots) |-> i # f]))

Init ==
    \/ InitCutover
    \/ InitFlags
    \/ InitImages
    \/ InitNaming
    \/ InitMerging
    \/ InitExecute
    \/ InitExample

----------------------------------------------------------------------------
(* main, step by step *)

Snapshot(h, list) ==
    [k \in 1..Len(list) |->
        [sid |-> list[k], screenshots |-> h[list[k]].screenshots,
         folder_name |-> h[list[k]].folder_name]]

\* lines 887-889: nothing found, main returns
NoScreenshots ==
    /\ pc = "found"
    /\ screenshots = <<>>
    /\ pc' = "done"
    /\ returned' = <<0>>
    /\ UNCHANGED <<screenshots, phash, heap, sessions, regular_sessions, uncategorized,
                   args, env, hashRequested, stageOut, location, dirs, traversed>>

\* line 894
ClusterByTime ==
    /\ pc = "found"
    /\ screenshots # <<>>
    /\ LET runs == cluster_by_time(screenshots, args.gap_minutes)
           r == Alloc(heap, [k \in 1..Len(runs) |-> [ref |-> 0, members |-> runs[k]]], <<>>)
       IN  /\ heap' = r.heap
           /\ sessions' = r.list
           /\ stageOut' = [stageOut EXCEPT !.time = Snapshot(r.heap, r.list)]
    /\ pc' = "refine"
    /\ UNCHANGED <<screenshots, phash, regular_sessions, uncategorized, args, env,
                   hashRequested>>
    /\ UNCHANGED disk

\* lines 898-907, similarity splitting enabled
RefineBySimilarity ==
    /\ pc = "refine"
    /\ args.enable_similarity
    /\ LET hashed == HashedNow(heap, sessions, phash)
           ph == [i \in 1..Len(screenshots) |->
                     IF i \in hashed THEN calculate_phash(i) ELSE phash[i]]
           r == Alloc(heap, RefineAll(heap, sessions, ph, args.similarity_threshold, 1), <<>>)
       IN  /\ phash' = ph
           /\ hashRequested' = hashRequested \cup hashed
           /\ heap' = r.heap
           /\ sessions' = r.list
           /\ stageOut' = [stageOut EXCEPT !.refined = Snapshot(r.heap, r.list)]
    /\ pc' = "name"
    /\ UNCHANGED <<screenshots, regular_sessions, uncategorized, args, env>>
    /\ UNCHANGED disk

\* line 898, similarity splitting disabled
SkipRefine ==
    /\ pc = "refine"
    /\ ~args.enable_similarity
    /\ stageOut' = [stageOut EXCEPT !.refined = Snapshot(heap, sessions)]
    /\ pc' = "name"
    /\ UNCHANGED <<screenshots, phash, heap, sessions, regular_sessions, uncategorized,
                   args, env, hashRequested>>
    /\ UNCHANGED disk

\* line 916
GenerateSessionNames ==
    /\ pc = "name"
    /\ heap' = generate_session_names(heap, sessions, args.smart_naming)
    /\ stageOut' = [stageOut EXCEPT !.named = Snapshot(heap', sessions)]
    /\ pc' = "merge"
    /\ UNCHANGED <<screenshots, phash, sessions, regular_sessions, uncategorized, args, env,
                   hashRequested>>
    /\ UNCHANGED disk

\* lines 919-927, merging enabled
MergeSimilarSessions ==
    /\ pc = "merge"
    /\ args.merge_similar
    /\ LET r == merge_similar_sessions(heap, sessions, args.merge_threshold)
       IN  /\ heap' = r.heap
           /\ sessions' = r.merged
           /\ stageOut' = [stageOut EXCEPT !.merged = Snapshot(r.heap, r.merged)]
    /\ pc' = "identify"
    /\ UNCHANGED <<screenshots, phash, regular_sessions, uncategorized, args, env,
                   hashRequested>>
    /\ UNCHANGED disk

\* line 919, merging disabled
SkipMerge ==
    /\ pc = "merge"
    /\ ~args.merge_similar
    /\ stageOut' = [stageOut EXCEPT !.merged = Snapshot(heap, sessions)]
    /\ pc' = "identify"
    /\ UNCHANGED <<screenshots, phash, heap, sessions, regular_sessions, uncategorized,
                   args, env, hashRequested>>
    /\ UNCHANGED disk

\* line 930
IdentifyUncategorized ==
    /\ pc = "identify"
    /\ LET r == identify_uncategorized(heap, sessions)
       IN  /\ regular_sessions' = r.regular
           /\ uncategorized' = r.uncategorized
    /\ pc' = "plan"
    /\ UNCHANGED <<screenshots, phash, heap, sessions, args, env, hashRequested, stageOut>>
    /\ UNCHANGED disk

\* the desktop as execute_organization finds it
Desktop == [location |-> location, dirs |-> dirs, traversed |-> traversed, failed |-> FALSE]

\* lines 936-938: --dry-run
ExecuteDryRun ==
    /\ pc = "plan"
    /\ args.dry_run
    /\ LET r == execute_organization(Desktop, heap, regular_sessions, uncategorized, TRUE)
       IN  /\ location' = r.location
           /\ dirs' = r.dirs
           /\ traversed' = r.traversed
    /\ returned' = <<0>>
    /\ pc' = "done"
    /\ UNCHANGED <<screenshots, phash, heap, sessions, regular_sessions, uncategorized,
                   args, env, hashRequested, stageOut>>

\* lines 940-943: the user does not answer y or yes
Cancelled ==
    /\ pc = "plan"
    /\ ~args.dry_run
    /\ ~args.auto_confirm
    /\ ~env.confirm
    /\ returned' = <<0>>
    /\ pc' = "done"
    /\ UNCHANGED <<screenshots, phash, heap, sessions, regular_sessions, uncategorized,
                   args, env, hashRequested, stageOut, location, dirs, traversed>>

\* lines 945-947
ExecuteOrganization ==
    /\ pc = "plan"
    /\ ~args.dry_run
    /\ args.auto_confirm \/ env.confirm
    /\ LET r == execute_organization(Desktop, heap, regular_sessions, uncategorized, FALSE)
       IN  /\ location' = r.location
           /\ dirs' = r.dirs
           /\ traversed' = r.traversed
           /\ returned' = IF r.success THEN <<0>> ELSE <<1>>
    /\ pc' = "done"
    /\ UNCHANGED <<screenshots, phash, heap, sessions, regular_sessions, uncategorized,
                   args, env, hashRequested, stageOut>>

Next ==
    \/ NoScreenshots
    \/ ClusterByTime
    \/ RefineBySimilarity
    \/ SkipRefine
    \/ GenerateSessionNames
    \/ MergeSimilarSessions
    \/ SkipMerge
    \/ IdentifyUncategorized
    \/ ExecuteDryRun
    \/ Cancelled
    \/ ExecuteOrganization

Spec == Init /\ [][Next]_vars

----------------------------------------------------------------------------
(* Notions the properties below are stated in *)

\* main's position right after each stage returned (stageOut keeps what it returned)
ClusterReturned == pc = "refine"
RefineReturned == pc = "name"
NamesGiven == pc = "merge"
MergeReturned == pc = "identify"

Items == 1..Len(screenshots)
InputOrder == [i \in 1..Len(screenshots) |-> i]
MemberLists(snapshot) == [k \in 1..Len(snapshot) |-> snapshot[k].screenshots]
Occurrences(seq, x) == Len(SelectSeq(seq, LAMBDA y : y = x))

\* the cluster of a list that holds item i
ClusterOf(snapshot, i) ==
    CHOOSE k \in 1..Len(snapshot) : i \in Range(snapshot[k].screenshots)

\* rule (a) or rule (b) of the diurnal boundary
DiurnalCrossing(previous, current) ==
    \/ DateOf(previous) # DateOf(current) /\ HourOf(current) >= 4
    \/ DateOf(previous) = DateOf(current) /\ HourOf(previous) < 4 /\ HourOf(current) >= 4

\* a 04:00 instant of some day lies in (previous, current]
CutoverBetween(previous, current) ==
    \E day \in 0..DateOf(current) :
        previous < At(day, 4, 0, 0) /\ At(day, 4, 0, 0) <= current

----------------------------------------------------------------------------
\* C1: cluster_by_time returns non-empty clusters whose members, concatenated in
\* cluster order, are the input sequence exactly; the empty input gives the empty
\* list and a single item gives one singleton cluster.
C1_TimePartition ==
    /\ cluster_by_time(<<>>, args.gap_minutes) = <<>>
    /\ ClusterReturned =>
          /\ \A k \in 1..Len(stageOut.time) : stageOut.time[k].screenshots # <<>>
          /\ Flatten(MemberLists(stageOut.time)) = InputOrder
          /\ Len(screenshots) = 1 => MemberLists(stageOut.time) = <<<<1>>>>

C1_Witness ==
    /\ ClusterReturned
    /\ Len(stageOut.time) >= 2
    /\ \E k \in 1..Len(stageOut.time) : Len(stageOut.time[k].screenshots) >= 2

\* C2: after the whole pipeline, whatever stages are enabled, every input item is
\* exactly once among the members of the regular sessions and the uncategorized
\* items together.
C2_PipelinePartition ==
    pc = "plan" =>
        LET placed == Flatten(MembersOf(heap, regular_sessions)) \o uncategorized
        IN  /\ Range(placed) \subseteq Items
            /\ \A i \in Items : Occurrences(placed, i) = 1

C2_Witness ==
    /\ pc = "plan"
    /\ args.enable_similarity /\ args.smart_naming /\ args.merge_similar
    /\ Len(stageOut.refined) > Len(stageOut.time)
    /\ Len(stageOut.merged) < Len(stageOut.named)
    /\ regular_sessions # <<>>
    /\ uncategorized # <<>>

\* the boundary rule of C3, without its two examples
C3_BoundaryRule ==
    ClusterReturned =>
        \A i \in 2..Len(screenshots) :
            (ClusterOf(stageOut.time, i - 1) # ClusterOf(stageOut.time, i))
            <=> \/ DiurnalCrossing(screenshots[i - 1], screenshots[i])
                \/ screenshots[i] - screenshots[i - 1] > args.gap_minutes * 60

\* 03:59:00 and 04:00:30 with G = 60 minutes are split
C3_CutoverExample ==
    (/\ ClusterReturned
     /\ screenshots = <<At(1, 3, 59, 0), At(1, 4, 0, 30)>>
     /\ args.gap_minutes = 60)
    => MemberLists(stageOut.time) = <<<<1>>, <<2>>>>

C3_GapExampleInput ==
    /\ ClusterReturned
    /\ screenshots = <<At(1, 4, 0, 30), At(1, 4, 5, 30), At(1, 4, 20, 30)>>
    /\ args.gap_minutes = 15

\* C3 as stated: a boundary between adjacent items iff they cross the diurnal
\* boundary or are more than G apart; 03:59:00 and 04:00:30 with G = 60m are split;
\* t0, t0+5m, t0+20m with G = 15m gives {t0, t0+5m} and {t0+20m}.
C3_AsStated ==
    /\ C3_BoundaryRule
    /\ C3_CutoverExample
    /\ C3_GapExampleInput => MemberLists(stageOut.time) = <<<<1, 2>>, <<3>>>>

\* C3 amended: the same rule and cutover example; t0, t0+5m, t0+20m with G = 15m
\* stay one cluster, since the gap from t0+5m to t0+20m equals G and does not split.
C3_BoundaryIff ==
    /\ C3_BoundaryRule
    /\ C3_CutoverExample
    /\ C3_GapExampleInput => MemberLists(stageOut.time) = <<<<1, 2, 3>>>>

C3_Witness ==
    /\ ClusterReturned
    /\ \E i \in 2..Len(screenshots) :
          /\ DiurnalCrossing(screenshots[i - 1], screenshots[i])
          /\ screenshots[i] - screenshots[i - 1] <= args.gap_minutes * 60
          /\ ClusterOf(stageOut.time, i - 1) # ClusterOf(stageOut.time, i)
    /\ \E i \in 2..Len(screenshots) :
          /\ screenshots[i] - screenshots[i - 1] = args.gap_minutes * 60
          /\ ClusterOf(stageOut.time, i - 1) = ClusterOf(stageOut.time, i)

\* C4: whatever the gap, no session returned by cluster_by_time holds two
\* consecutive screenshots with a 04:00 instant of some day in
\* (previous.created_at, current.created_at].
C4_AlwaysSplitAtCutover ==
    ClusterReturned =>
        \A k \in 1..Len(stageOut.time) :
            \A j \in 2..Len(stageOut.time[k].screenshots) :
                ~CutoverBetween(screenshots[stageOut.time[k].screenshots[j - 1]],
                                screenshots[stageOut.time[k].screenshots[j]])

\* C5: refine_sessions_by_similarity only splits: every output cluster is a
\* non-empty contiguous run of the members of one input cluster, and the output
\* clusters concatenate in order to the input clusters' members.
C5_RefineSplitOnly ==
    (RefineReturned /\ args.enable_similarity) =>
        /\ Flatten(MemberLists(stageOut.refined)) = Flatten(MemberLists(stageOut.time))
        /\ \A o \in 1..Len(stageOut.refined) :
              LET run == stageOut.refined[o].screenshots
              IN  /\ run # <<>>
                  /\ \E k \in 1..Len(stageOut.time) :
                        \E a \in 1..(Len(stageOut.time[k].screenshots) - Len(run) + 1) :
                            run = SubSeq(stageOut.time[k].screenshots, a, a + Len(run) - 1)
                  /\ \A k1, k2 \in 1..Len(stageOut.time) :
                        (/\ Range(run) \cap Range(stageOut.time[k1].screenshots) # {}
                         /\ Range(run) \cap Range(stageOut.time[k2].screenshots) # {})
                        => k1 = k2

C5_Witness ==
    /\ RefineReturned /\ args.enable_similarity
    /\ Len(stageOut.refined) > Len(stageOut.time)
    /\ \E o \in 1..Len(stageOut.refined) : Len(stageOut.refined[o].screenshots) >= 2

\* C6: inside a cluster of 2 or more members a sub-cluster boundary lies between
\* adjacent members iff both fingerprints are available and their distance is > T;
\* clusters of 0 or 1 members pass through unchanged and no fingerprint is
\* requested for their members.
C6_RefineBoundaryIff ==
    (RefineReturned /\ args.enable_similarity) =>
        \A k \in 1..Len(stageOut.time) :
            LET members == stageOut.time[k].screenshots
            IN  IF Len(members) >= 2
                THEN \A j \in 2..Len(members) :
                        (ClusterOf(stageOut.refined, members[j - 1])
                            # ClusterOf(stageOut.refined, members[j]))
                        <=> /\ env.image[members[j - 1]].some
                            /\ env.image[members[j]].some
                            /\ hash_diff(env.image[members[j - 1]], env.image[members[j]])
                                  > args.similarity_threshold
                ELSE /\ \E o \in 1..Len(stageOut.refined) :
                            stageOut.refined[o] = stageOut.time[k]
                     /\ Range(members) \cap hashRequested = {}
                     /\ \A i \in Range(members) : phash[i] = NoneHash

C6_Witness ==
    /\ RefineReturned /\ args.enable_similarity
    /\ \E k \in 1..Len(stageOut.time) : Len(stageOut.time[k].screenshots) = 1
    /\ \E k \in 1..Len(stageOut.time) :
          /\ Len(stageOut.time[k].screenshots) >= 2
          /\ \E j \in 2..Len(stageOut.time[k].screenshots) :
                /\ ~env.image[stageOut.time[k].screenshots[j]].some
                /\ ClusterOf(stageOut.refined, stageOut.time[k].screenshots[j - 1])
                      = ClusterOf(stageOut.refined, stageOut.time[k].screenshots[j])

\* position of cluster p among the clusters of the list that start on the same date
RankOnDate(snapshot, p) ==
    Cardinality({q \in 1..p : DateOf(start_time(snapshot[q].screenshots))
                               = DateOf(start_time(snapshot[p].screenshots))})
SameDate(snapshot, p) ==
    {q \in 1..Len(snapshot) : DateOf(start_time(snapshot[q].screenshots))
                               = DateOf(start_time(snapshot[p].screenshots))}
LastToken(name) == LET tokens == Split(name, "_") IN tokens[Len(tokens)]

\* C7: in timestamp mode each cluster is named {date}_{time}_session_{index} from
\* its start_time, index being its 1-based position among the clusters of the same
\* date in list order; per date the indices are exactly 1..k, none given twice.
C7_TimestampNames ==
    (NamesGiven /\ ~args.smart_naming) =>
        \A p \in 1..Len(stageOut.named) :
            /\ stageOut.named[p].folder_name
                  = TimestampName(start_time(stageOut.named[p].screenshots),
                                  RankOnDate(stageOut.named, p))
            /\ {LastToken(stageOut.named[q].folder_name) : q \in SameDate(stageOut.named, p)}
                  = {DecStr(j) : j \in 1..Cardinality(SameDate(stageOut.named, p))}
            /\ \A q \in SameDate(stageOut.named, p) :
                  q # p => LastToken(stageOut.named[q].folder_name)
                              # LastToken(stageOut.named[p].folder_name)

C7_Witness ==
    /\ NamesGiven /\ ~args.smart_naming
    /\ \E p, q \in 1..Len(stageOut.named) :
          /\ p < q
          /\ q \in SameDate(stageOut.named, p)
          /\ \E r \in 1..Len(stageOut.named) : r > q /\ r \notin SameDate(stageOut.named, p)

\* C8: after generate_session_names, in timestamp mode and in descriptive mode,
\* every cluster has a non-empty identifier and no two clusters of the list have
\* the same identifier.
C8_UniqueNames ==
    NamesGiven =>
        /\ \A p \in 1..Len(stageOut.named) : stageOut.named[p].folder_name # <<>>
        /\ \A p, q \in 1..Len(stageOut.named) :
              p # q => stageOut.named[p].folder_name # stageOut.named[q].folder_name

\* what the Namer has to go on for a cluster in descriptive mode
SampleKeywords(members) ==
    IF ~env.ocr_available THEN <<>>
    ELSE extract_keywords(
             Flatten([k \in 1..Len(Take(members, 3)) |-> env.text[members[k]]]), 4, 30)
TimePrefix(members) ==
    strftime_date(start_time(members)) \o <<"_">> \o strftime_time(start_time(members))

\* C9: in descriptive mode each cluster is named by the fallback chain: without
\* keywords (no text, OCR unavailable) exactly the timestamp-mode identifier;
\* otherwise the timestamp prefix and the sanitized label of at most 4 tokens when
\* the label generator gave a usable one; otherwise the timestamp prefix and the
\* top 3 keywords joined by '_'.
C9_FallbackChain ==
    (NamesGiven /\ args.smart_naming) =>
        \A p \in 1..Len(stageOut.named) :
            LET members == stageOut.named[p].screenshots
                name == stageOut.named[p].folder_name
                keywords == SampleKeywords(members)
                reply == env.llm[members[1]]
                label == CleanLabel(reply.stdout)
            IN  IF keywords = <<>>
                THEN name = TimestampName(start_time(members), RankOnDate(stageOut.named, p))
                ELSE IF reply.ok /\ label # <<>>
                THEN /\ name = TimePrefix(members) \o <<"_">> \o label
                     /\ Len(Split(label, "_")) <= 4
                ELSE name = TimePrefix(members) \o <<"_">>
                            \o Join([k \in 1..Len(Take(keywords, 3)) |-> keywords[k].word],
                                    <<"_">>)

C9_Witness ==
    /\ NamesGiven /\ args.smart_naming /\ env.ocr_available
    /\ \E p \in 1..Len(stageOut.named) :
          /\ SampleKeywords(stageOut.named[p].screenshots) # <<>>
          /\ env.llm[stageOut.named[p].screenshots[1]].ok
          /\ CleanLabel(env.llm[stageOut.named[p].screenshots[1]].stdout) = <<>>
    /\ \E p \in 1..Len(stageOut.named) :
          /\ env.text[stageOut.named[p].screenshots[1]] # <<>>
          /\ SampleKeywords(stageOut.named[p].screenshots) = <<>>

\* the keyword set of an identifier and the comparison of the Jaccard index with S
IdentifierKeywords(name) ==
    LET tokens == Split(name, "_")
    IN  {tokens[x] : x \in 3..Len(tokens)}
            \ {t \in Range(tokens) : t = <<"s", "e", "s", "s", "i", "o", "n">> \/ isdigit(t)}
JaccardAtLeast(k1, k2, s) ==
    IF k1 = {} \/ k2 = {} THEN s.num <= 0
    ELSE Cardinality(k1 \cap k2) * s.den >= s.num * Cardinality(k1 \cup k2)

\* the merger's walk, read off its input list and its output list
Kept(k) == \E o \in 1..Len(stageOut.merged) : stageOut.merged[o].sid = stageOut.named[k].sid
CurrentAt(k) == CHOOSE c \in 1..(k - 1) : Kept(c) /\ \A j \in (c + 1)..(k - 1) : ~Kept(j)
\* the members of the accumulating current c when cluster k is compared with it
ExtendedCurrent(c, k) == Flatten([x \in 1..(k - c) |-> stageOut.named[c + x - 1].screenshots])
Absorbed(c, k) ==
    /\ ~Kept(k)
    /\ \E o \in 1..Len(stageOut.merged) :
          /\ stageOut.merged[o].sid = stageOut.named[c].sid
          /\ Range(stageOut.named[k].screenshots) \subseteq Range(stageOut.merged[o].screenshots)
MergeCondition(c, k) ==
    LET current_end == end_time(ExtendedCurrent(c, k))
        next_start == start_time(stageOut.named[k].screenshots)
    IN  /\ next_start - current_end <= 4 * 3600
        /\ ~DiurnalCrossing(current_end, next_start)
        /\ JaccardAtLeast(IdentifierKeywords(stageOut.named[c].folder_name),
                          IdentifierKeywords(stageOut.named[k].folder_name),
                          args.merge_threshold)

----------------------------------------------------------------------------
(* C11 *)

\* the named cluster an output cluster of the merger started from, and the last
\* named cluster of its run
StartOf(o) == CHOOSE k \in 1..Len(stageOut.named) : stageOut.named[k].sid = stageOut.merged[o].sid
EndOf(o) == IF o = Len(stageOut.merged) THEN Len(stageOut.named) ELSE StartOf(o + 1) - 1
RunMembers(a, b) == Flatten([x \in 1..(b - a + 1) |-> stageOut.named[a + x - 1].screenshots])

\* C11: each cluster the merger returns holds, in order, the members of a run of
\* consecutive named clusters and carries the identifier of the first of them; the
\* runs cover the named list in order, so all members together are unchanged; a
\* list of 0 or 1 clusters comes back as it was.
C11_MergeOrder ==
    (MergeReturned /\ args.merge_similar) =>
        /\ \A o \in 1..Len(stageOut.merged) :
              /\ \E k \in 1..Len(stageOut.named) : stageOut.named[k].sid = stageOut.merged[o].sid
              /\ StartOf(o) <= EndOf(o)
              /\ o = 1 => StartOf(o) = 1
              /\ stageOut.merged[o].folder_name = stageOut.named[StartOf(o)].folder_name
              /\ stageOut.merged[o].screenshots = RunMembers(StartOf(o), EndOf(o))
        /\ Flatten(MemberLists(stageOut.merged)) = Flatten(MemberLists(stageOut.named))
        /\ Len(stageOut.named) <= 1 => stageOut.merged = stageOut.named
        /\ merge_similar_sessions(heap, <<>>, args.merge_threshold).merged = <<>>

C11_Witness ==
    /\ MergeReturned /\ args.merge_similar
    /\ Len(stageOut.merged) >= 2
    /\ \E o \in 1..Len(stageOut.merged) :
          /\ EndOf(o) > StartOf(o)
          /\ Len(stageOut.named[EndOf(o)].screenshots) >= 2

----------------------------------------------------------------------------
(* C12 *)

Planned == pc = "plan"
Sizes(snapshot) == [k \in 1..Len(snapshot) |-> Len(snapshot[k].screenshots)]
Singles(snapshot) == SelectSeq(snapshot, LAMBDA c : Len(c.screenshots) = 1)
Others(snapshot) == SelectSeq(snapshot, LAMBDA c : Len(c.screenshots) # 1)
\* an output cluster of the merger made of two clusters of one member each
TwoSinglesMerged(o) ==
    /\ EndOf(o) = StartOf(o) + 1
    /\ Len(stageOut.named[StartOf(o)].screenshots) = 1
    /\ Len(stageOut.named[EndOf(o)].screenshots) = 1

\* C12: identify_uncategorized gives as uncategorized exactly the sole members of
\* the clusters of size 1, in cluster order, and as regular sessions exactly the
\* other clusters, unchanged and in order (sizes 1,3,1,2,1 give sizes 3,2 and 3
\* uncategorized items); it sees the merger's output, so two clusters of one member
\* that were merged are one regular session of 2 and add nothing to uncategorized.
C12_IdentifyUncategorized ==
    Planned =>
        LET singles == Singles(stageOut.merged)
            others == Others(stageOut.merged)
        IN  /\ uncategorized = [k \in 1..Len(singles) |-> singles[k].screenshots[1]]
            /\ regular_sessions = [k \in 1..Len(others) |-> others[k].sid]
            /\ \A k \in 1..Len(others) :
                  /\ heap[regular_sessions[k]].screenshots = others[k].screenshots
                  /\ heap[regular_sessions[k]].folder_name = others[k].folder_name
            /\ Sizes(stageOut.merged) = <<1, 3, 1, 2, 1>> =>
                  /\ [k \in 1..Len(regular_sessions) |-> count(heap, regular_sessions[k])]
                       = <<3, 2>>
                  /\ Len(uncategorized) = 3
            /\ args.merge_similar =>
                  \A o \in 1..Len(stageOut.merged) :
                      TwoSinglesMerged(o) =>
                          /\ stageOut.merged[o].sid \in Range(regular_sessions)
                          /\ count(heap, stageOut.merged[o].sid) = 2
                          /\ Range(stageOut.merged[o].screenshots) \cap Range(uncategorized) = {}

C12_Witness ==
    /\ Planned
    /\ args.merge_similar
    /\ Sizes(stageOut.merged) = <<1, 3, 1, 2, 1>>
    /\ \E o \in 1..Len(stageOut.merged) : TwoSinglesMerged(o)

----------------------------------------------------------------------------
(* C13, C14 *)

\* main returned after a real call of execute_organization, or after a dry run
Executed == pc = "done" /\ screenshots # <<>> /\ ~args.dry_run /\ (args.auto_confirm \/ env.confirm)
DryRan == pc = "done" /\ screenshots # <<>> /\ args.dry_run
\* the plan: the folder each item is to go to, and the order the items come in
Target(i) ==
    IF \E k \in 1..Len(uncategorized) : uncategorized[k] = i THEN UncategorizedFolder
    ELSE LET k == CHOOSE k \in 1..Len(regular_sessions) :
                      i \in Range(heap[regular_sessions[k]].screenshots)
         IN  heap[regular_sessions[k]].folder_name
PlanOrder == Flatten(MembersOf(heap, regular_sessions)) \o uncategorized

\* C13: a move that fails is caught for that item alone: every other item of the
\* plan is still attempted and, if its own move succeeds, ends up in its target
\* folder; main's status reports the failure.
C13_FailureDoesNotAbort ==
    (Executed /\ env.mkdir_ok) =>
        /\ \A i \in Items :
              /\ i \in Range(traversed)
              /\ env.move_ok[i] => location[i] = Target(i)
        /\ (\E i \in Items : ~env.move_ok[i]) => returned = <<1>>

\* C14: a dry run goes through the same sessions and uncategorized items as a
\* real run, creates no folder and moves no file: the desktop is as it was.
C14_DryRunPurity ==
    /\ DryRan =>
          /\ location = [i \in Items |-> OnDesktop]
          /\ dirs = {}
          /\ traversed = PlanOrder
          /\ returned = <<0>>
    /\ (Executed /\ returned = <<0>>) => traversed = PlanOrder

C14_Witness ==
    /\ DryRan
    /\ regular_sessions # <<>>
    /\ uncategorized # <<>>
    /\ \E i \in Items : ~env.move_ok[i]

----------------------------------------------------------------------------
(* C15 *)

\* the clusters of the list a stage was given have, in the heap, the members
\* they had when the list was handed over
InputIntact(snapshot) ==
    \A k \in 1..Len(snapshot) : heap[snapshot[k].sid].screenshots = snapshot[k].screenshots
\* no item is a member of two of the session objects of the two lists
NoSharedItem(given, result) ==
    LET live == {given[k].sid : k \in 1..Len(given)} \cup {result[k].sid : k \in 1..Len(result)}
    IN  \A a \in live, b \in live :
            a # b => Range(heap[a].screenshots) \cap Range(heap[b].screenshots) = {}

\* C15: no stage changes the list it was given: after refine_sessions_by_similarity
\* and after merge_similar_sessions every cluster of the input list has the member
\* sequence it had before the call, and after a merge no item is a member of two
\* live clusters.
C15_StagesLeaveInput ==
    /\ RefineReturned => InputIntact(stageOut.time)
    /\ (MergeReturned /\ args.merge_similar) =>
          /\ InputIntact(stageOut.named)
          /\ NoSharedItem(stageOut.named, stageOut.merged)

----------------------------------------------------------------------------
(* C16 *)

\* C16: the merger applied to the list it returned, identifiers as it left them,
\* merges nothing more: same clusters, same members, same identifiers.
C16_MergeIdempotent ==
    (MergeReturned /\ args.merge_similar) =>
        LET again == merge_similar_sessions(heap, sessions, args.merge_threshold)
        IN  /\ again.merged = sessions
            /\ again.heap = heap
            /\ Snapshot(again.heap, again.merged) = stageOut.merged

C16_Witness ==
    /\ MergeReturned /\ args.merge_similar
    /\ Len(stageOut.merged) >= 2
    /\ Len(stageOut.merged) < Len(stageOut.named)
    /\ \E o \in 2..Len(stageOut.merged) :
          start_time(stageOut.merged[o].screenshots)
            - end_time(stageOut.merged[o - 1].screenshots) <= 4 * 3600

----------------------------------------------------------------------------
(* C17 *)

\* an identifier of the form {date}_{time}_session_{index}
IsTimestampIdentifier(name) ==
    LET parts == Split(name, "_")
    IN  /\ Len(parts) = 4
        /\ Len(parts[1]) = 10
        /\ isdigit(parts[2])
        /\ parts[3] = SessionWord
        /\ isdigit(parts[4])
AllTimestampNamed == \A k \in 1..Len(stageOut.named) : IsTimestampIdentifier(stageOut.named[k].folder_name)
\* neighbours that the times alone would let merge
TimesAllowMerge(k) ==
    /\ start_time(stageOut.named[k].screenshots)
         - end_time(stageOut.named[k - 1].screenshots) <= 4 * 3600
    /\ ~DiurnalCrossing(end_time(stageOut.named[k - 1].screenshots),
                        start_time(stageOut.named[k].screenshots))

\* C17: when every identifier is a timestamp identifier, every keyword set is empty
\* and every pair's similarity is 0, so with a threshold above 0 the merger returns
\* its input, clusters and members; timestamp-named clusters merge only at threshold 0.
C17_TimestampNamesNeverMerge ==
    (MergeReturned /\ args.merge_similar /\ AllTimestampNamed) =>
        /\ \A k \in 1..Len(stageOut.named) : name_keywords(stageOut.named[k].folder_name) = {}
        /\ \A j \in 1..Len(stageOut.named), k \in 1..Len(stageOut.named) :
              calculate_keyword_similarity(stageOut.named[j].folder_name,
                                           stageOut.named[k].folder_name).n = 0
        /\ args.merge_threshold.num > 0 => stageOut.merged = stageOut.named
        /\ Len(stageOut.merged) < Len(stageOut.named) => args.merge_threshold.num = 0

C17_Witness ==
    /\ MergeReturned /\ args.merge_similar /\ AllTimestampNamed
    /\ args.merge_threshold.num > 0
    /\ Len(stageOut.named) >= 3
    /\ \A k \in 2..Len(stageOut.named) : TimesAllowMerge(k)

====
